---- MODULE Spec2Model ----
(***************************************************************************)
(* A model of cdfwriter's CDFWriter session (src/src/cdfwriter/            *)
(* interface.py): the catalog of declared variables and constants, the     *)
(* record buffer, the time span of the "Epoch" variable, the version, the  *)
(* split policy, and the close / makeNewFile / closeRecord protocol that   *)
(* names and publishes the files.                                          *)
(*                                                                         *)
(* Python values are modelled as follows.  A str that is only compared or  *)
(* concatenated is a TLA+ string.  The argument of setVersionNumber, which *)
(* the code splits and inspects character by character, is a sequence of   *)
(* one-character strings; Str joins it where the code concatenates it.     *)
(* A datetime is a record of its calendar fields, a timedelta a number of  *)
(* seconds.  A dict is a function whose DOMAIN is the set of its keys.     *)
(* Every other Python object is a record tagged with its kind: a datetime, *)
(* a float, an int, a list or a numpy array of objects, or None.  An       *)
(* exception leaving a method is recorded in ret.err under the name of its *)
(* Python class.  The str arguments are always strs here, so the           *)
(* isinstance(..., str) guards never raise.                                *)
(*                                                                         *)
(* spacepy.pycdf is the backend the code calls.  The model takes from it   *)
(* that an operation through a closed handle raises CDFError, that cdf.new *)
(* raises CDFError for a name the file holds already, and that             *)
(* pycdf.CDF(name, '') raises CDFError when a file of that name exists,    *)
(* and that the finalizer of a pycdf.CDF object closes an open handle.     *)
(***************************************************************************)
EXTENDS Integers, Sequences, FiniteSets, TLC

VARIABLES
    prefix,             \* self._prefix
    cdf_temp_name,      \* self._cdf_temp_name
    cdf,                \* self._cdf: the backend handle, open or closed
    last_cdf_filename,  \* self._last_cdf_filename
    version,            \* self._version
    doNotSplit,         \* self._doNotSplit
    boundary,           \* self._boundary
    variables,          \* self._variables
    constants,          \* self._constants
    global_attrs,       \* self._global_attrs
    variable_attrs,     \* self._variable_attrs
    firstTime,          \* self._firstTime
    lastTime,           \* self._lastTime
    data,               \* self._data
    constantData,       \* self._constantData
    files,              \* the permanent files of the output directory
    tmpFiles,           \* the temporary files of the output directory
    versionArg,         \* the argument of the latest (or the pending) setVersionNumber call
    epochLog,           \* the timestamps the "Epoch" appends of the open file carried
    calls,              \* the number of calls made on the session
    ret                 \* the latest call: its name, how it ended, what it did

schema   == <<variables, constants, variable_attrs>>
buffer   == <<data, constantData>>
timeSpan == <<firstTime, lastTime>>
policy   == <<doNotSplit, boundary>>
disk     == <<files, tmpFiles, cdf, cdf_temp_name>>
vars == <<prefix, cdf_temp_name, cdf, last_cdf_filename, version, doNotSplit,
          boundary, variables, constants, global_attrs, variable_attrs,
          firstTime, lastTime, data, constantData, files, tmpFiles,
          versionArg, epochLog, calls, ret>>

-----------------------------------------------------------------------------
(* Bounds of the model.                                                    *)

MaxCalls == 5       \* calls made on one session
MaxRecords == 2     \* elements of one bulk payload
MaxVerLen == 6      \* characters of a setVersionNumber argument (input sweep)
MaxSweepCalls == 2  \* calls made on one session of the input sweep

-----------------------------------------------------------------------------
(* Python values.                                                          *)

None == [kind |-> "None"]

(* None in a slot that otherwise holds a str (no file is named so).        *)
NoneStr == "None"

EmptyDict == [k \in {} |-> None]

(* The keys of a dict (TLC holds the empty function as the empty tuple).   *)
Keys(d) == IF d = <<>> THEN {} ELSE DOMAIN d

Put(d, k, v) == [x \in Keys(d) \cup {k} |-> IF x = k THEN v ELSE d[x]]

RECURSIVE Str(_)
Str(s) == IF s = <<>> THEN "" ELSE Head(s) \o Str(Tail(s))

Names(catalog) == {catalog[i].name : i \in 1..Len(catalog)}

(* datetime.datetime: the calendar fields.                                 *)
DateTime(y, mo, d, h, mi, s) ==
    [kind |-> "datetime", year |-> y, month |-> mo, day |-> d,
     hour |-> h, minute |-> mi, second |-> s]

DigitChar(d) ==
    CASE d = 0 -> "0" [] d = 1 -> "1" [] d = 2 -> "2" [] d = 3 -> "3" [] d = 4 -> "4"
      [] d = 5 -> "5" [] d = 6 -> "6" [] d = 7 -> "7" [] d = 8 -> "8" [] d = 9 -> "9"

(* A zero-padded decimal field of strftime, w digits wide.                 *)
RECURSIVE ZeroPad(_, _)
ZeroPad(n, w) == IF w = 0 THEN "" ELSE ZeroPad(n \div 10, w - 1) \o DigitChar(n % 10)

(* A faulty variant: the format "%Y%m%d%H%M%S".                            *)
strftime_seconds(t) ==
    ZeroPad(t.year, 4) \o ZeroPad(t.month, 2) \o ZeroPad(t.day, 2)
        \o ZeroPad(t.hour, 2) \o ZeroPad(t.minute, 2) \o ZeroPad(t.second, 2)

(* t.strftime("%Y%m%d%H%M00"): the seconds are not formatted, "00" is literal. *)
strftime(t) ==
    ZeroPad(t.year, 4) \o ZeroPad(t.month, 2) \o ZeroPad(t.day, 2)
        \o ZeroPad(t.hour, 2) \o ZeroPad(t.minute, 2) \o "00"

(* Days of the year before the first of a month (a leap year: 2024).       *)
DaysBefore(mo) ==
    CASE mo = 1 -> 0 [] mo = 2 -> 31 [] mo = 3 -> 60 [] mo = 4 -> 91 [] mo = 5 -> 121
      [] mo = 6 -> 152 [] mo = 7 -> 182 [] mo = 8 -> 213 [] mo = 9 -> 244
      [] mo = 10 -> 274 [] mo = 11 -> 305 [] mo = 12 -> 335

SecondsOfYear(t) ==
    (((DaysBefore(t.month) + t.day - 1) * 24 + t.hour) * 60 + t.minute) * 60 + t.second

(* b - a of two datetimes of one year, as a timedelta in seconds.          *)
TimeDelta(b, a) == SecondsOfYear(b) - SecondsOfYear(a)

(* datetime.timedelta(hours=h, minutes=m), in seconds.                     *)
timedelta(h, m) == (h * 60 + m) * 60

-----------------------------------------------------------------------------
(* The inputs the callers draw from.                                       *)

VarNames == {"Epoch", "Flux"}
ConstNames == {"Instrument_ID"}

(* The names addConstantData is called with: the constant, and a name that *)
(* is declared among the variables only.                                   *)
ConstDataNames == ConstNames \cup {"Flux"}

T0 == DateTime(2024, 1, 1, 0, 0, 0)
T1 == DateTime(2024, 1, 1, 5, 59, 0)
T2 == DateTime(2024, 1, 1, 6, 0, 0)
TimeValues == {T0, T1, T2}

(* A time with seconds, in another month.                                  *)
T3 == DateTime(2024, 11, 30, 23, 7, 45)
StampTimes == TimeValues \cup {T3}

(* The boundaries setDoNotSplit is called with: the default of its         *)
(* parameter, and a shorter one.                                           *)
Boundaries == {timedelta(6, 0), timedelta(5, 59)}

(* The prefixes the sessions are constructed with.                         *)
Prefixes == {"probeA", "mms1_fpi"}

(* 3.14, in hundredths.                                                    *)
FluxValues == {[kind |-> "float", val |-> 314]}
ConstValues == {[kind |-> "int", val |-> 42]}

ValuesOf(name) == IF name = "Epoch" THEN TimeValues ELSE FluxValues

(* The payloads of a call: one record (a scalar), or all the records, held *)
(* in a Python list or in a numpy array.                                   *)
SeqsOver(S) == UNION {[1..n -> S] : n \in 1..MaxRecords}
RecordPayloads(name) == ValuesOf(name)
BulkPayloads(name) ==
    {[kind |-> k, val |-> s] : k \in {"list", "ndarray"}, s \in SeqsOver(ValuesOf(name))}

(* os.getpid() and random.randint(1, 65535) of the temporary name: the     *)
(* name the constructor drew, and the names makeNewFile may draw (the same *)
(* number again, or another).                                              *)
FirstTmpName == "__tmp4242_1.cdf"
TmpNames == {FirstTmpName, "__tmp4242_2.cdf"}

(* datetime.datetime.now().strftime("%Y%m%d") at the time of the seal.     *)
Today == "20240102"

(* The strings a caller passes to setVersionNumber in the session model.   *)
SessionVersionArgs ==
    { <<"1", ".", "0", ".", "0">>,      \* well formed
      <<"1", ".", "0">>,                \* two components
      <<"1", ".", "a", ".", "0">> }     \* a component that is no number

(* The input sweep: every string over this alphabet up to MaxVerLen long.  *)
VersionAlphabet == {"0", "1", ".", "a"}
VersionStrings == UNION {[1..n -> VersionAlphabet] : n \in 0..MaxVerLen}

-----------------------------------------------------------------------------
(* What a call returns to the observer.                                    *)
(*   op            the method called                                      *)
(*   arg           the name (or the argument) it was called with          *)
(*   err           "none", or the class of the exception that left it     *)
(*   seal          "none" when close() was not entered, else how it ended:*)
(*                 "published", "discarded" (nothing buffered: the file   *)
(*                 was removed), or "failed"                              *)
(*   new_filename  the permanent name close() computed                    *)
(*   content       what the published file holds                          *)
(*   split         closeRecord entered makeNewFile                        *)
(*   span          the difference closeRecord compared with the boundary  *)
(*   reopened      makeNewFile opened a new temporary file                *)
(*   all_values    the all_values argument of addVariableData             *)
(*   payload       the data argument of addVariableData, addConstantData; *)
(*                 the dataType and addFill arguments of                  *)
(*                 addPlotVariableAttributes                              *)
Ret(op, arg, err) ==
    [op |-> op, arg |-> arg, err |-> err, seal |-> "none", new_filename |-> NoneStr,
     content |-> None, split |-> FALSE, span |-> None, reopened |-> FALSE,
     all_values |-> FALSE, payload |-> None]

-----------------------------------------------------------------------------
(* setVersionNumber                                                        *)

(* s.split('.'): the pieces between the dots, the empty ones included.     *)
RECURSIVE split(_)
split(s) ==
    IF \A i \in 1..Len(s) : s[i] # "."
    THEN <<s>>
    ELSE LET i == CHOOSE k \in 1..Len(s) :
                      s[k] = "." /\ \A j \in 1..(k - 1) : s[j] # "."
         IN  <<SubSeq(s, 1, i - 1)>> \o split(SubSeq(s, i + 1, Len(s)))

DecimalDigits == {"0", "1", "2", "3", "4", "5", "6", "7", "8", "9"}

(* s.isdigit(): at least one character, and only digits.  The alphabets of *)
(* this model hold no digit character other than the decimal digits.       *)
isdigit(s) == Len(s) > 0 /\ \A i \in 1..Len(s) : s[i] \in DecimalDigits

(* The exception setVersionNumber(v) ends with, "none" when it returns.    *)
setVersionNumberErr(v) ==
    LET versionNumbersList == split(v)
        numLevels == Len(versionNumbersList)
    IN  IF numLevels # 3 THEN "ValueError"
        ELSE IF \E j \in 1..numLevels : ~isdigit(versionNumbersList[j]) THEN "TypeError"
        ELSE "none"

(* A faulty variant: the components are stored as the numbers they spell,  *)
(* without their leading zeros.                                            *)
RECURSIVE stripZeros(_)
stripZeros(s) == IF Len(s) > 1 /\ s[1] = "0" THEN stripZeros(Tail(s)) ELSE s
RECURSIVE joinDots(_)
joinDots(parts) ==
    IF Len(parts) = 1 THEN parts[1]
    ELSE parts[1] \o <<".">> \o joinDots(Tail(parts))
storedVersion_normalised(v) ==
    joinDots([i \in 1..Len(split(v)) |-> stripZeros(split(v)[i])])

(* self._version = version: the string as it was passed.                   *)
storedVersion(v) == v

setVersionNumber(v) ==
    /\ versionArg' = v
    /\ version' = IF setVersionNumberErr(v) = "none" THEN storedVersion(v) ELSE version
    /\ ret' = Ret("setVersionNumber", Str(v), setVersionNumberErr(v))
    /\ UNCHANGED <<prefix, schema, buffer, timeSpan, policy, disk, global_attrs,
                   last_cdf_filename, epochLog>>

-----------------------------------------------------------------------------
(* setDoNotSplit                                                           *)

setDoNotSplit(flag, b) ==
    /\ doNotSplit' = flag
    /\ boundary' = b
    /\ ret' = Ret("setDoNotSplit", IF flag THEN "True" ELSE "False", "none")
    /\ UNCHANGED <<prefix, schema, buffer, timeSpan, disk, global_attrs,
                   last_cdf_filename, version, versionArg, epochLog>>

-----------------------------------------------------------------------------
(* The attribute registry.                                                 *)

addGlobalAttribute(name, value) ==
    /\ global_attrs' = Put(global_attrs, name, value)
    /\ ret' = Ret("addGlobalAttribute", name, "none")
    /\ UNCHANGED <<prefix, schema, buffer, timeSpan, policy, disk, last_cdf_filename,
                   version, versionArg, epochLog>>

(* self._variable_attrs after addVariableAttribute: the owner's map is     *)
(* created when it is not there; the catalog is not consulted.             *)
withVariableAttribute(registry, attribute_name, variable_name, value) ==
    Put(registry, variable_name,
        Put(IF variable_name \in Keys(registry) THEN registry[variable_name] ELSE EmptyDict,
            attribute_name, value))

(* A faulty variant: the owner is looked up in the catalog.                *)
addVariableAttribute_checked(attribute_name, variable_name, value) ==
    LET known == variable_name \in Names(variables) \cup Names(constants)
    IN  /\ variable_attrs' =
               IF known
               THEN withVariableAttribute(variable_attrs, attribute_name, variable_name, value)
               ELSE variable_attrs
        /\ ret' = Ret("addVariableAttribute", variable_name,
                      IF known THEN "none" ELSE "ValueError")
        /\ UNCHANGED <<prefix, variables, constants, buffer, timeSpan, policy, disk,
                       global_attrs, last_cdf_filename, version, versionArg, epochLog>>

addVariableAttribute(attribute_name, variable_name, value) ==
    /\ variable_attrs' =
           withVariableAttribute(variable_attrs, attribute_name, variable_name, value)
    /\ ret' = Ret("addVariableAttribute", variable_name, "none")
    /\ UNCHANGED <<prefix, variables, constants, buffer, timeSpan, policy, disk,
                   global_attrs, last_cdf_filename, version, versionArg, epochLog>>

(* 1.0e31                                                                  *)
Float1e31 == [kind |-> "float", mantissa |-> 1, exponent |-> 31]
IntValue(n) == [kind |-> "int", val |-> n]

(* The data types the FILLVAL chain of addPlotVariableAttributes knows.    *)
FillTypes == {"CDF_DOUBLE", "CDF_FLOAT", "CDF_UINT1", "CDF_UINT2", "CDF_INT4", "CDF_UINT4"}

(* A faulty variant: the values of the two 32-bit types change places.     *)
FILLVAL_swapped(dataType) ==
    CASE dataType = "CDF_DOUBLE" -> Float1e31
      [] dataType = "CDF_FLOAT" -> Float1e31
      [] dataType = "CDF_UINT1" -> IntValue(255)
      [] dataType = "CDF_UINT2" -> IntValue(65535)
      [] dataType = "CDF_INT4" -> IntValue(-1)
      [] dataType = "CDF_UINT4" -> IntValue(1)

(* The FILLVAL of a data type of FillTypes.                                *)
FILLVAL(dataType) ==
    CASE dataType = "CDF_DOUBLE" -> Float1e31
      [] dataType = "CDF_FLOAT" -> Float1e31
      [] dataType = "CDF_UINT1" -> IntValue(255)
      [] dataType = "CDF_UINT2" -> IntValue(65535)
      [] dataType = "CDF_INT4" -> IntValue(1)
      [] dataType = "CDF_UINT4" -> IntValue(-1)

(* addPlotVariableAttributes(variable_name, dataType=dataType,             *)
(* addFill=addFill), the other parameters at their defaults.  os.abort()   *)
(* ends the process with SIGABRT after the first four attributes.          *)
addPlotVariableAttributes(variable_name, dataType, addFill) ==
    LET put(r, a, v) == withVariableAttribute(r, a, variable_name, v)
        r4 == put(put(put(put(variable_attrs, "FIELDNAM", ""), "VALIDMIN", None),
                      "VALIDMAX", None), "LABLAXIS", "")
        aborts == addFill /\ dataType \notin FillTypes
        r5 == IF addFill /\ ~aborts THEN put(r4, "FILLVAL", FILLVAL(dataType)) ELSE r4
        r9 == put(put(put(put(r5, "SCALETYP", "linear"), "UNITS", "unitless"),
                      "FORMAT", ""), "CATDESC", "")
        r14 == put(put(put(put(put(r9, "VAR_TYPE", "data"), "DISPLAY_TYPE", ""),
                           "SI_CONVERSION", " > "), "DEPEND_0", "Epoch"),
                   "COORDINATE_SYSTEM", "BCS")
    IN  /\ variable_attrs' = IF aborts THEN r4 ELSE r14
        /\ ret' = [Ret("addPlotVariableAttributes", variable_name,
                       IF aborts THEN "SIGABRT" ELSE "none")
                      EXCEPT !.payload = [kind |-> "plot", dataType |-> dataType,
                                          addFill |-> addFill]]
        /\ UNCHANGED <<prefix, variables, constants, buffer, timeSpan, policy, disk,
                       global_attrs, last_cdf_filename, version, versionArg, epochLog>>

-----------------------------------------------------------------------------
(* The schema catalog.                                                     *)

(* A faulty variant: a name that is in the catalog is not added again.     *)
addVariable_unique(name, dataType) ==
    /\ variables' = IF name \in Names(variables) THEN variables
                    ELSE Append(variables, [name |-> name, dataType |-> dataType,
                                            variance |-> TRUE,
                                            compression |-> "GZIP_COMPRESSION"])
    /\ ret' = Ret("addVariable", name, "none")
    /\ UNCHANGED <<prefix, constants, variable_attrs, buffer, timeSpan, policy, disk,
                   global_attrs, last_cdf_filename, version, versionArg, epochLog>>

addVariable(name, dataType) ==
    /\ variables' = Append(variables, [name |-> name, dataType |-> dataType,
                                       variance |-> TRUE,
                                       compression |-> "GZIP_COMPRESSION"])
    /\ ret' = Ret("addVariable", name, "none")
    /\ UNCHANGED <<prefix, constants, variable_attrs, buffer, timeSpan, policy, disk,
                   global_attrs, last_cdf_filename, version, versionArg, epochLog>>

addConstant(name, dataType) ==
    /\ constants' = Append(constants, [name |-> name, dataType |-> dataType])
    /\ ret' = Ret("addConstant", name, "none")
    /\ UNCHANGED <<prefix, variables, variable_attrs, buffer, timeSpan, policy, disk,
                   global_attrs, last_cdf_filename, version, versionArg, epochLog>>

-----------------------------------------------------------------------------
(* The record buffer.                                                      *)

IsSequence(obj) == obj.kind \in {"list", "ndarray"}

(* The times the "Epoch" branch of addVariableData reads from the payload. *)
TimesOf(payload) == IF IsSequence(payload) THEN payload.val ELSE <<payload>>

(* A faulty variant: the assert is gone, a second bulk set replaces.       *)
addVariableDataErr_noAssert(variable_name, payload, all_values) ==
    IF variable_name \notin Names(variables) THEN "ValueError"
    ELSE IF variable_name = "Epoch" /\ Len(TimesOf(payload)) = 0 THEN "IndexError"
    ELSE IF ~all_values /\ variable_name \in Keys(data)
                /\ data[variable_name].kind # "list" THEN "AttributeError"
    ELSE "none"

(* The exception addVariableData ends with, "none" when it returns.        *)
addVariableDataErr(variable_name, payload, all_values) ==
    IF variable_name \notin Names(variables) THEN "ValueError"
    ELSE IF variable_name = "Epoch" /\ Len(TimesOf(payload)) = 0 THEN "IndexError"
    ELSE IF all_values /\ variable_name \in Keys(data) THEN "AssertionError"
    ELSE IF ~all_values /\ variable_name \in Keys(data)
                /\ data[variable_name].kind # "list" THEN "AttributeError"
    ELSE "none"

(* A faulty variant: the "Epoch" branch runs before the catalog lookup.     *)
UpdatesTimeSpan_beforeLookup(variable_name, payload) ==
    /\ variable_name = "Epoch"
    /\ Len(TimesOf(payload)) > 0

(* Whether the call reaches the lines that update the time span.           *)
UpdatesTimeSpan(variable_name, payload) ==
    /\ variable_name \in Names(variables)
    /\ variable_name = "Epoch"
    /\ Len(TimesOf(payload)) > 0

(* A faulty variant: the first time follows every append.                  *)
firstTimeAfter_overwrite(times) == times[1]

(* The time span after the "Epoch" branch has read times.                  *)
firstTimeAfter(times) == IF firstTime = None THEN times[1] ELSE firstTime
lastTimeAfter(times) == times[Len(times)]

(* A faulty variant: the record goes in front of the ones buffered.        *)
appended_inFront(records, payload) == <<payload>> \o records

(* self._data[variable_name].append(data)                                  *)
appended(records, payload) == Append(records, payload)

addVariableData(variable_name, payload, all_values) ==
    LET err == addVariableDataErr(variable_name, payload, all_values)
        times == TimesOf(payload)
    IN  /\ IF UpdatesTimeSpan(variable_name, payload)
           THEN /\ firstTime' = firstTimeAfter(times)
                /\ lastTime' = lastTimeAfter(times)
                /\ epochLog' = epochLog \o times
           ELSE UNCHANGED <<firstTime, lastTime, epochLog>>
        /\ data' =
              IF err # "none" THEN data
              ELSE IF all_values THEN Put(data, variable_name, payload)
              ELSE IF variable_name \notin Keys(data)
                   THEN Put(data, variable_name, [kind |-> "list", val |-> <<payload>>])
              ELSE Put(data, variable_name,
                       [kind |-> "list", val |-> appended(data[variable_name].val, payload)])
        /\ ret' = [Ret("addVariableData", variable_name, err)
                      EXCEPT !.all_values = all_values, !.payload = payload]
        /\ UNCHANGED <<prefix, schema, constantData, policy, disk, global_attrs,
                       last_cdf_filename, version, versionArg>>

addConstantDataErr(constant_name) ==
    IF constant_name \notin Names(constants) THEN "ValueError" ELSE "none"

addConstantData(constant_name, payload) ==
    LET err == addConstantDataErr(constant_name)
    IN  /\ constantData' =
              IF err # "none" THEN constantData
              ELSE IF constant_name \notin Keys(constantData)
                   THEN Put(constantData, constant_name, <<payload>>)
              ELSE Put(constantData, constant_name,
                       Append(constantData[constant_name], payload))
        /\ ret' = [Ret("addConstantData", constant_name, err) EXCEPT !.payload = payload]
        /\ UNCHANGED <<prefix, schema, data, timeSpan, policy, disk, global_attrs,
                       last_cdf_filename, version, versionArg, epochLog>>

-----------------------------------------------------------------------------
(* The write pipeline.  The backend file is a record of the global         *)
(* attributes and of the entities (zVariables) written through the handle. *)

Merge(a, b) == [k \in Keys(a) \cup Keys(b) |-> IF k \in Keys(b) THEN b[k] ELSE a[k]]

AttrsOf(name) == IF name \in Keys(variable_attrs) THEN variable_attrs[name] ELSE EmptyDict

(* A faulty variant: the payload of the last call is the one written.      *)
constantValue_last(payloads) == payloads[Len(payloads)]

(* self._constantData[constant['name']][0]                                 *)
constantValue(payloads) == payloads[1]

(* The constants, in declaration order, from the i-th on.  cdf.new raises  *)
(* for a name that is in the file already and nothing catches it.          *)
RECURSIVE writeConstants(_, _)
writeConstants(i, z) ==
    IF i > Len(constants) THEN [err |-> "none", zvars |-> z]
    ELSE LET name == constants[i].name
         IN  IF name \in Keys(z) THEN [err |-> "CDFError", zvars |-> z]
             ELSE writeConstants(i + 1,
                      Put(z, name,
                          [type |-> constants[i].dataType, recVary |-> FALSE,
                           compress |-> "NO_COMPRESSION", attrs |-> AttrsOf(name),
                           data |-> IF name \in Keys(constantData)
                                    THEN constantValue(constantData[name]) ELSE None]))

(* The variables, in declaration order, from the i-th on.  A cdf.new that  *)
(* raises is caught; the attributes and the data then go to the entity     *)
(* that holds the name.                                                    *)
RECURSIVE writeVariables(_, _)
writeVariables(i, z) ==
    IF i > Len(variables) THEN z
    ELSE LET name == variables[i].name
             z1 == IF name \in Keys(z) THEN z
                   ELSE Put(z, name,
                            [type |-> variables[i].dataType,
                             recVary |-> variables[i].variance,
                             compress |-> variables[i].compression,
                             attrs |-> EmptyDict, data |-> None])
             z2 == Put(z1, name, [z1[name] EXCEPT !.attrs = Merge(@, AttrsOf(name))])
             z3 == IF name \in Keys(data)
                   THEN Put(z2, name, [z2[name] EXCEPT !.data = data[name]])
                   ELSE z2
         IN  writeVariables(i + 1, z3)

(* A faulty variant: the handle takes calls after it was closed.           *)
handleClosed_never == FALSE

(* The handle self._cdf was closed: its calls raise CDFError.              *)
handleClosed == ~cdf.opened

(* _writeData() with the global attributes g: how it ends and the file.    *)
writeData(g) ==
    IF handleClosed THEN [err |-> "CDFError", content |-> None]
    ELSE LET c == writeConstants(1, EmptyDict)
         IN  IF c.err # "none"
             THEN [err |-> c.err, content |-> [attrs |-> g, zvars |-> c.zvars]]
             ELSE [err |-> "none",
                   content |-> [attrs |-> g, zvars |-> writeVariables(1, c.zvars)]]

-----------------------------------------------------------------------------
(* cloneVariable.  zVar is the variable handed in: its name, type, record  *)
(* variance, compression, attributes and values.  The declaration and the  *)
(* attributes are assigned first (the attributes of the name are replaced, *)
(* not merged); with cloneData the values come from zVar[name][...], an    *)
(* index by a string whose outcome is up to the class of zVar: it returns  *)
(* the values or raises (outcome), and when it raises the declaration and  *)
(* the attributes stay.  The time span is not assigned.                    *)
cloneVariable(zVar, name, cloneData, newType, newAttrs, outcome) ==
    LET n == IF name = NoneStr THEN zVar.name ELSE name
        t == IF newType = NoneStr THEN zVar.type ELSE newType
        err == IF cloneData THEN outcome ELSE "none"
    IN  /\ variables' = Append(variables, [name |-> n, dataType |-> t,
                                           variance |-> zVar.rv,
                                           compression |-> zVar.compress])
        /\ variable_attrs' = Put(variable_attrs, n, Merge(zVar.attrs, newAttrs))
        /\ data' = IF cloneData /\ err = "none"
                   THEN Put(data, n, [kind |-> "ndarray", val |-> zVar.values])
                   ELSE data
        /\ ret' = Ret("cloneVariable", n, err)
        /\ UNCHANGED <<prefix, constants, constantData, timeSpan, policy, disk,
                       global_attrs, last_cdf_filename, version, versionArg, epochLog>>

-----------------------------------------------------------------------------
(* close                                                                   *)

(* A faulty variant: Logical_file_id stops at the minutes.                 *)
closeGlobalAttrs_toTheMinute ==
    LET g3 == Put(Put(Put(global_attrs, "Generation_date", Today),
                      "Data_version", "v" \o Str(version)),
                  "Logical_source", prefix)
        t == firstTime
    IN  IF firstTime # None
        THEN Put(g3, "Logical_file_id",
                 prefix \o "_" \o ZeroPad(t.year, 4) \o ZeroPad(t.month, 2)
                     \o ZeroPad(t.day, 2) \o ZeroPad(t.hour, 2) \o ZeroPad(t.minute, 2))
        ELSE g3

(* A faulty variant: the values the caller set are kept.                   *)
closeGlobalAttrs_keepsCallers ==
    LET keep(g, k, v) == IF k \in Keys(g) THEN g ELSE Put(g, k, v)
        g3 == keep(keep(keep(global_attrs, "Generation_date", Today),
                        "Data_version", "v" \o Str(version)),
                   "Logical_source", prefix)
    IN  IF firstTime # None
        THEN Put(g3, "Logical_file_id", prefix \o "_" \o strftime(firstTime))
        ELSE g3

(* The global attributes after the lines that open close().                *)
closeGlobalAttrs ==
    LET g3 == Put(Put(Put(global_attrs, "Generation_date", Today),
                      "Data_version", "v" \o Str(version)),
                  "Logical_source", prefix)
    IN  IF firstTime # None
        THEN Put(g3, "Logical_file_id", prefix \o "_" \o strftime(firstTime))
        ELSE g3

new_filename ==
    IF firstTime # None
    THEN prefix \o "_" \o strftime(firstTime) \o "_v" \o Str(version) \o ".cdf"
    ELSE prefix \o "_v" \o Str(version) \o ".cdf"

(* A faulty variant: the rename goes ahead whatever is at the path.        *)
pathExists_never(name) == FALSE

(* os.path.exists(self._outputDirectory + new_filename)                    *)
pathExists(name) == name \in files

(* A faulty variant: the data of the constants counts as buffered data.    *)
dataBuffered_orConstants == Keys(data) # {} \/ Keys(constantData) # {}

(* if self._data: the buffer of the variables holds a name.                *)
dataBuffered == Keys(data) # {}

(* What one call of close() does to the session: the exception it ends     *)
(* with, and the value of every field and of the directory after it.       *)
closeOutcome ==
    LET g == closeGlobalAttrs
        hasData == dataBuffered
        w == writeData(g)
        failed(e, handle) ==
            [err |-> e, seal |-> "failed", new_filename |-> new_filename,
             content |-> None, global_attrs |-> g, cdf |-> handle,
             files |-> files, tmpFiles |-> tmpFiles,
             last_cdf_filename |-> last_cdf_filename, data |-> data,
             firstTime |-> firstTime, lastTime |-> lastTime, epochLog |-> epochLog]
    IN  IF hasData /\ w.err # "none" THEN failed(w.err, cdf)
        ELSE IF handleClosed THEN failed("CDFError", cdf)
        ELSE IF pathExists(new_filename) THEN failed("RuntimeError", [opened |-> FALSE])
        ELSE IF cdf_temp_name \notin tmpFiles
             THEN failed("FileNotFoundError", [opened |-> FALSE])
        ELSE [err |-> "none",
              seal |-> IF hasData THEN "published" ELSE "discarded",
              new_filename |-> new_filename,
              content |-> IF hasData THEN w.content ELSE None,
              global_attrs |-> g,
              cdf |-> [opened |-> FALSE],
              files |-> IF hasData THEN files \cup {new_filename} ELSE files,
              tmpFiles |-> tmpFiles \ {cdf_temp_name},
              last_cdf_filename |-> IF hasData THEN new_filename ELSE last_cdf_filename,
              data |-> EmptyDict, firstTime |-> None, lastTime |-> None,
              epochLog |-> <<>>]

(* A faulty variant: the first time is carried over to the next file.      *)
ApplyClose_keepsFirstTime(c) ==
    /\ global_attrs' = c.global_attrs
    /\ files' = c.files
    /\ last_cdf_filename' = c.last_cdf_filename
    /\ data' = c.data
    /\ firstTime' = firstTime
    /\ lastTime' = c.lastTime
    /\ epochLog' = c.epochLog

(* A faulty variant: the last time outlives the seal.                      *)
ApplyClose_keepsLastTime(c) ==
    /\ global_attrs' = c.global_attrs
    /\ files' = c.files
    /\ last_cdf_filename' = c.last_cdf_filename
    /\ data' = c.data
    /\ firstTime' = c.firstTime
    /\ lastTime' = lastTime
    /\ epochLog' = c.epochLog

(* The fields close() may assign, set from its outcome c.                  *)
ApplyClose(c) ==
    /\ global_attrs' = c.global_attrs
    /\ files' = c.files
    /\ last_cdf_filename' = c.last_cdf_filename
    /\ data' = c.data
    /\ firstTime' = c.firstTime
    /\ lastTime' = c.lastTime
    /\ epochLog' = c.epochLog

SealRet(op, c) ==
    [Ret(op, "-", c.err) EXCEPT !.seal = c.seal, !.new_filename = c.new_filename,
                                !.content = c.content]

close ==
    LET c == closeOutcome
    IN  /\ ApplyClose(c)
        /\ cdf' = c.cdf
        /\ tmpFiles' = c.tmpFiles
        /\ ret' = SealRet("close", c)
        /\ UNCHANGED <<prefix, cdf_temp_name, schema, constantData, policy, version,
                       versionArg>>

-----------------------------------------------------------------------------
(* makeNewFile and closeRecord                                             *)

(* A faulty variant: the new temporary file is opened without the close()  *)
(* of the one in use.                                                      *)
makeNewFileSteps_withoutClose(op, tmp, isSplit, span) ==
    /\ IF tmp \in tmpFiles
       THEN /\ UNCHANGED <<cdf, tmpFiles>>
            /\ ret' = Ret(op, "-", "CDFError")
       ELSE /\ cdf' = [opened |-> TRUE]
            /\ tmpFiles' = tmpFiles \cup {tmp}
            /\ ret' = [Ret(op, "-", "none") EXCEPT !.reopened = TRUE, !.split = isSplit,
                                                   !.span = span]
    /\ cdf_temp_name' = tmp
    /\ UNCHANGED <<prefix, schema, buffer, timeSpan, policy, files, global_attrs,
                   last_cdf_filename, version, versionArg, epochLog>>

(* makeNewFile(), tmp being the temporary name it draws.  An exception of  *)
(* close() leaves it before the new name is assigned; pycdf.CDF(name, '')  *)
(* raises when a file of that name exists.                                 *)
makeNewFileSteps(op, tmp, isSplit, span) ==
    LET c == closeOutcome
        r == [SealRet(op, c) EXCEPT !.split = isSplit, !.span = span]
    IN  /\ ApplyClose(c)
        /\ IF c.err # "none"
           THEN /\ cdf' = c.cdf
                /\ tmpFiles' = c.tmpFiles
                /\ cdf_temp_name' = cdf_temp_name
                /\ ret' = r
           ELSE IF tmp \in c.tmpFiles
           THEN /\ cdf' = c.cdf
                /\ tmpFiles' = c.tmpFiles
                /\ cdf_temp_name' = tmp
                /\ ret' = [r EXCEPT !.err = "CDFError"]
           ELSE /\ cdf' = [opened |-> TRUE]
                /\ tmpFiles' = c.tmpFiles \cup {tmp}
                /\ cdf_temp_name' = tmp
                /\ ret' = [r EXCEPT !.reopened = TRUE]
        /\ UNCHANGED <<prefix, schema, constantData, policy, version, versionArg>>

makeNewFile(tmp) == makeNewFileSteps("makeNewFile", tmp, FALSE, None)

(* A faulty variant of the comparison: a span equal to the boundary does   *)
(* not count.                                                              *)
boundaryReached_strict == TimeDelta(lastTime, firstTime) > boundary

(* self._lastTime - self._firstTime >= self._boundary                      *)
boundaryReached == TimeDelta(lastTime, firstTime) >= boundary

(* A faulty variant: a boundary check on an unset time span does nothing.  *)
closeRecord_unsetIsNoOp(tmp) ==
    IF doNotSplit \/ firstTime = None \/ lastTime = None
    THEN /\ ret' = Ret("closeRecord", "-", "none")
         /\ UNCHANGED <<prefix, schema, buffer, timeSpan, policy, disk, global_attrs,
                        last_cdf_filename, version, versionArg, epochLog>>
    ELSE LET span == [kind |-> "timedelta", seconds |-> TimeDelta(lastTime, firstTime)]
         IN  IF boundaryReached
             THEN makeNewFileSteps("closeRecord", tmp, TRUE, span)
             ELSE /\ ret' = [Ret("closeRecord", "-", "none") EXCEPT !.span = span]
                  /\ UNCHANGED <<prefix, schema, buffer, timeSpan, policy, disk,
                                 global_attrs, last_cdf_filename, version, versionArg,
                                 epochLog>>

(* lastTime - firstTime: a TypeError when they are None.                   *)
closeRecord(tmp) ==
    IF doNotSplit
    THEN /\ ret' = Ret("closeRecord", "-", "none")
         /\ UNCHANGED <<prefix, schema, buffer, timeSpan, policy, disk, global_attrs,
                        last_cdf_filename, version, versionArg, epochLog>>
    ELSE IF firstTime = None \/ lastTime = None
    THEN /\ ret' = Ret("closeRecord", "-", "TypeError")
         /\ UNCHANGED <<prefix, schema, buffer, timeSpan, policy, disk, global_attrs,
                        last_cdf_filename, version, versionArg, epochLog>>
    ELSE LET span == [kind |-> "timedelta", seconds |-> TimeDelta(lastTime, firstTime)]
         IN  IF boundaryReached
             THEN makeNewFileSteps("closeRecord", tmp, TRUE, span)
             ELSE /\ ret' = [Ret("closeRecord", "-", "none") EXCEPT !.span = span]
                  /\ UNCHANGED <<prefix, schema, buffer, timeSpan, policy, disk,
                                 global_attrs, last_cdf_filename, version, versionArg,
                                 epochLog>>

-----------------------------------------------------------------------------
(* The end of the session: the last reference to the object goes (del, or  *)
(* the interpreter exits).  The class defines no __del__, __exit__ or      *)
(* atexit hook, so nothing of it runs; the finalizer of the pycdf.CDF      *)
(* object it holds closes the handle.  The temporary file stays where it   *)
(* is and what was buffered goes with the object.                          *)
sessionEnd ==
    /\ cdf' = [opened |-> FALSE]
    /\ ret' = Ret("__del__", "-", "none")
    /\ UNCHANGED <<prefix, cdf_temp_name, schema, buffer, timeSpan, policy, files,
                   tmpFiles, global_attrs, last_cdf_filename, version, versionArg,
                   epochLog>>

-----------------------------------------------------------------------------
(* The session: the state after CDFWriter(prefix), and one action per      *)
(* method, its arguments drawn from the inputs above.                      *)

DeclaredType(name) ==
    CASE name = "Epoch" -> "CDF_TIME_TT2000"
      [] name = "Flux" -> "CDF_DOUBLE"
      [] OTHER -> "CDF_INT4"

InitSession(p, tmp) ==
    /\ prefix = p
    /\ cdf_temp_name = tmp
    /\ cdf = [opened |-> TRUE]
    /\ tmpFiles = {tmp}
    /\ files = {}
    /\ last_cdf_filename = NoneStr
    /\ version = <<"0", ".", "0", ".", "0">>
    /\ doNotSplit = TRUE
    /\ boundary = timedelta(6, 0)
    /\ variables = <<>>
    /\ constants = <<>>
    /\ global_attrs = EmptyDict
    /\ variable_attrs = EmptyDict
    /\ firstTime = None
    /\ lastTime = None
    /\ data = EmptyDict
    /\ constantData = EmptyDict
    /\ epochLog = <<>>
    /\ ret = Ret("__init__", p, "none")

Init ==
    /\ InitSession("probeA", FirstTmpName)
    /\ versionArg = <<"0", ".", "0", ".", "0">>
    /\ calls = 0

(* One more call, while the session has made fewer than MaxCalls and the   *)
(* object and its process are alive.                                       *)
Call ==
    /\ calls < MaxCalls
    /\ ret.op # "__del__"
    /\ ret.err # "SIGABRT"
    /\ calls' = calls + 1

(* The callers append the times of one file in increasing order.           *)
RECURSIVE Increasing(_)
Increasing(times) ==
    IF Len(times) < 2 THEN TRUE
    ELSE TimeDelta(times[2], times[1]) > 0 /\ Increasing(Tail(times))
Chronological(name, payload) ==
    IF name # "Epoch" THEN TRUE
    ELSE /\ Increasing(TimesOf(payload))
         /\ IF lastTime = None THEN TRUE
            ELSE TimeDelta(TimesOf(payload)[1], lastTime) > 0

AddVariable == \E name \in VarNames : Call /\ addVariable(name, DeclaredType(name))

AddConstant == \E name \in ConstNames : Call /\ addConstant(name, DeclaredType(name))

AppendRecord ==
    \E name \in VarNames : \E payload \in RecordPayloads(name) :
        /\ Call
        /\ Chronological(name, payload)
        /\ addVariableData(name, payload, FALSE)

SetAllRecords ==
    \E name \in VarNames : \E payload \in BulkPayloads(name) :
        /\ Call
        /\ Chronological(name, payload)
        /\ addVariableData(name, payload, TRUE)

AddConstantData ==
    \E name \in ConstDataNames : \E payload \in ConstValues :
        Call /\ addConstantData(name, payload)

SetVersion == \E v \in SessionVersionArgs : Call /\ setVersionNumber(v)

SetDoNotSplit ==
    \E flag \in BOOLEAN : \E b \in Boundaries : Call /\ setDoNotSplit(flag, b)

Close == Call /\ close

MakeNewFile == \E tmp \in TmpNames : Call /\ makeNewFile(tmp)

CloseRecord == \E tmp \in TmpNames : Call /\ closeRecord(tmp)

(* The declarations, the appends, the policy and the seals, in any order.  *)
Next ==
    \/ AddVariable
    \/ AddConstant
    \/ AppendRecord
    \/ SetAllRecords
    \/ AddConstantData
    \/ SetVersion
    \/ SetDoNotSplit
    \/ Close
    \/ MakeNewFile
    \/ CloseRecord

Spec == Init /\ [][Next]_vars

(* The record buffer and the time span: declarations, appends in both      *)
(* forms, and the seal that starts the next file.                          *)
NextBuffer ==
    \/ AddVariable
    \/ AddConstant
    \/ AppendRecord
    \/ SetAllRecords
    \/ AddConstantData
    \/ MakeNewFile

SpecBuffer == Init /\ [][NextBuffer]_vars

(* The seal: incremental appends, constants, close and makeNewFile.        *)
NextSeal ==
    \/ AddVariable
    \/ AddConstant
    \/ AppendRecord
    \/ AddConstantData
    \/ Close
    \/ MakeNewFile

SpecSeal == Init /\ [][NextSeal]_vars

(* The split policy: the boundary check after appends of "Epoch".          *)
NextSplit ==
    \/ AddVariable
    \/ AppendRecord
    \/ SetDoNotSplit
    \/ CloseRecord

SpecSplit == Init /\ [][NextSplit]_vars

(* The input sweep of setVersionNumber: a session that has declared its    *)
(* variables and buffered one record (with or without a time), and a       *)
(* caller that holds one string of VersionStrings, passes it to            *)
(* setVersionNumber, and seals.                                            *)
FluxDecl == [name |-> "Flux", dataType |-> DeclaredType("Flux"), variance |-> TRUE,
             compression |-> "GZIP_COMPRESSION"]
EpochDecl == [name |-> "Epoch", dataType |-> DeclaredType("Epoch"), variance |-> TRUE,
              compression |-> "GZIP_COMPRESSION"]

(* The session after CDFWriter(p), addVariable and one addVariableData:     *)
(* of "Epoch" with the time first, or of "Flux" when first is None.        *)
InitBuffered(p, first) ==
    /\ prefix = p
    /\ cdf_temp_name = FirstTmpName
    /\ cdf = [opened |-> TRUE]
    /\ tmpFiles = {cdf_temp_name}
    /\ files = {}
    /\ last_cdf_filename = NoneStr
    /\ version = <<"0", ".", "0", ".", "0">>
    /\ doNotSplit = TRUE
    /\ boundary = timedelta(6, 0)
    /\ constants = <<>>
    /\ global_attrs = EmptyDict
    /\ variable_attrs = EmptyDict
    /\ constantData = EmptyDict
    /\ firstTime = first
    /\ lastTime = first
    /\ IF first = None
       THEN /\ variables = <<FluxDecl>>
            /\ data = Put(EmptyDict, "Flux",
                          [kind |-> "list", val |-> <<CHOOSE v \in FluxValues : TRUE>>])
            /\ epochLog = <<>>
            /\ ret = [Ret("addVariableData", "Flux", "none")
                        EXCEPT !.payload = CHOOSE v \in FluxValues : TRUE]
       ELSE /\ variables = <<EpochDecl>>
            /\ data = Put(EmptyDict, "Epoch", [kind |-> "list", val |-> <<first>>])
            /\ epochLog = <<first>>
            /\ ret = [Ret("addVariableData", "Epoch", "none") EXCEPT !.payload = first]

InitSweep ==
    /\ versionArg \in VersionStrings
    /\ calls = 0
    /\ \E first \in {None, T1} : InitBuffered("probeA", first)

SweepCall == calls < MaxSweepCalls /\ calls' = calls + 1

SweepSetVersion == SweepCall /\ setVersionNumber(versionArg)

SweepClose == SweepCall /\ close

NextVersion ==
    \/ SweepSetVersion
    \/ SweepClose

SpecVersion == InitSweep /\ [][NextVersion]_vars

(* The names of the sealed files: sessions of every prefix of Prefixes     *)
(* whose first record carries any time of StampTimes (or none), which set  *)
(* the version, add records and seal.                                      *)
InitNames ==
    /\ versionArg = <<"0", ".", "0", ".", "0">>
    /\ calls = 0
    /\ \E p \in Prefixes : \E first \in {None} \cup StampTimes : InitBuffered(p, first)

NextNames ==
    \/ SetVersion
    \/ AppendRecord
    \/ Close
    \/ MakeNewFile

SpecNames == InitNames /\ [][NextNames]_vars

(* The names and the value of the global attributes a caller sets.         *)
GlobalAttrNames == {"Data_version", "Project"}
CallerValue == "caller"

AddGlobalAttribute ==
    \E name \in GlobalAttrNames : Call /\ addGlobalAttribute(name, CallerValue)

ConstDecl == [name |-> "Instrument_ID", dataType |-> DeclaredType("Instrument_ID")]

(* The declared session: after CDFWriter("probeA"), addConstant and        *)
(* addConstantData of "Instrument_ID" (42), addVariable of "Epoch" and of  *)
(* "Flux".  Its callers set global attributes and the version, append      *)
(* records and seal.                                                       *)
InitDeclared ==
    /\ versionArg = <<"0", ".", "0", ".", "0">>
    /\ calls = 0
    /\ prefix = "probeA"
    /\ cdf_temp_name = FirstTmpName
    /\ cdf = [opened |-> TRUE]
    /\ tmpFiles = {cdf_temp_name}
    /\ files = {}
    /\ last_cdf_filename = NoneStr
    /\ version = <<"0", ".", "0", ".", "0">>
    /\ doNotSplit = TRUE
    /\ boundary = timedelta(6, 0)
    /\ constants = <<ConstDecl>>
    /\ constantData = Put(EmptyDict, "Instrument_ID", <<CHOOSE v \in ConstValues : TRUE>>)
    /\ variables = <<EpochDecl, FluxDecl>>
    /\ global_attrs = EmptyDict
    /\ variable_attrs = EmptyDict
    /\ firstTime = None
    /\ lastTime = None
    /\ data = EmptyDict
    /\ epochLog = <<>>
    /\ ret = Ret("addVariable", "Flux", "none")

NextDeclared ==
    \/ AddGlobalAttribute
    \/ AppendRecord
    \/ SetVersion
    \/ Close
    \/ MakeNewFile

SpecDeclared == InitDeclared /\ [][NextDeclared]_vars

(* The payloads of the constants: two, so that the first call and a later  *)
(* one differ.                                                             *)
ConstPayloads == ConstValues \cup {[kind |-> "int", val |-> 7]}

SetConstantData ==
    \E name \in ConstNames : \E payload \in ConstPayloads :
        Call /\ addConstantData(name, payload)

(* The session after CDFWriter("probeA"), addVariable of "Flux" and one    *)
(* addVariableData of it.                                                  *)
InitConstants ==
    /\ InitBuffered("probeA", None)
    /\ versionArg = <<"0", ".", "0", ".", "0">>
    /\ calls = 0

(* The constants: declarations, their data, appends and seals.             *)
NextConstants ==
    \/ AddConstant
    \/ SetConstantData
    \/ AppendRecord
    \/ Close
    \/ MakeNewFile

SpecConstants == InitConstants /\ [][NextConstants]_vars

(* The rollover: a session that has declared "Epoch" and appended the time *)
(* T0 to it, or one that has declared "Flux" only and appended a value to  *)
(* it; its callers set the split policy, append records and make boundary  *)
(* checks.                                                                 *)
InitRollover ==
    /\ \E first \in {None, T0} : InitBuffered("probeA", first)
    /\ versionArg = <<"0", ".", "0", ".", "0">>
    /\ calls = 0

NextRollover ==
    \/ SetDoNotSplit
    \/ AppendRecord
    \/ CloseRecord

SpecRollover == InitRollover /\ [][NextRollover]_vars

(* The variables a caller clones: the time variable and a data variable of *)
(* a file read elsewhere, under their own name or as "Epoch", with or      *)
(* without their values.                                                   *)
CloneSources ==
    {[name |-> "Epoch", type |-> "CDF_TIME_TT2000", rv |-> TRUE,
      compress |-> "NO_COMPRESSION", attrs |-> Put(EmptyDict, "UNITS", "ns"),
      values |-> <<T0, T1>>],
     [name |-> "Flux", type |-> "CDF_DOUBLE", rv |-> TRUE,
      compress |-> "GZIP_COMPRESSION", attrs |-> Put(EmptyDict, "UNITS", "counts"),
      values |-> <<[kind |-> "float", val |-> 314]>>]}
CloneNames == {NoneStr, "Epoch"}
ImportOutcomes == {"none", "IndexError"}

CloneVariable ==
    \E zVar \in CloneSources : \E name \in CloneNames : \E cloneData \in BOOLEAN :
        \E outcome \in ImportOutcomes :
            /\ Call
            /\ cloneData \/ outcome = "none"
            /\ cloneVariable(zVar, name, cloneData, NoneStr, EmptyDict, outcome)

(* The cloned session: clones, appends and seals.                          *)
NextClone ==
    \/ CloneVariable
    \/ AppendRecord
    \/ Close

SpecClone == Init /\ [][NextClone]_vars

SessionEnd == Call /\ sessionEnd

(* The life of a session to its end: declarations, appends, seals, and the *)
(* end of the object.                                                      *)
NextEnd ==
    \/ AddVariable
    \/ AppendRecord
    \/ Close
    \/ MakeNewFile
    \/ SessionEnd

SpecEnd == Init /\ [][NextEnd]_vars

(* The data types addPlotVariableAttributes is called with: those of its   *)
(* chain, one outside it, and the default of the parameter (None).         *)
PlotTypes == FillTypes \cup {"CDF_INT2", NoneStr}
PlotOwners == {"Flux"}

AddPlotVariableAttributes ==
    \E name \in PlotOwners : \E dataType \in PlotTypes : \E addFill \in BOOLEAN :
        Call /\ addPlotVariableAttributes(name, dataType, addFill)

(* The plot attributes: declarations, the builder, appends and the seal.   *)
NextPlot ==
    \/ AddVariable
    \/ AddPlotVariableAttributes
    \/ AppendRecord
    \/ Close

SpecPlot == Init /\ [][NextPlot]_vars

(* The owners, the name and the value of the variable attributes a caller  *)
(* sets: a variable, and a name that is never declared.                    *)
AttrOwners == {"Flux", "Ghost"}
AttrNames == {"UNITS"}
AttrValues == {"counts"}

AddVariableAttribute ==
    \E owner \in AttrOwners : \E name \in AttrNames : \E value \in AttrValues :
        Call /\ addVariableAttribute(name, owner, value)

(* The attribute registry: declarations, variable attributes, appends and  *)
(* seals.                                                                  *)
NextAttrs ==
    \/ AddVariable
    \/ AddVariableAttribute
    \/ AppendRecord
    \/ Close
    \/ MakeNewFile

SpecAttrs == Init /\ [][NextAttrs]_vars

-----------------------------------------------------------------------------
(* The properties.  A step of a call is a step that counts one: the value  *)
(* of ret after it is what that call returned.                             *)

CallStep == calls' = calls + 1

(* The seconds from a to b, two times of one day, from the clock fields.   *)
SameDaySeconds(a, b) ==
    ((b.hour - a.hour) * 60 + (b.minute - a.minute)) * 60 + (b.second - a.second)

SixHours == 21600

(* C1: with splitting enabled and the time span set, a boundary check      *)
(* seals and reopens exactly when lastTime - firstTime is at least the     *)
(* boundary (six hours by default: 6h00m does, 5h59m does not); with       *)
(* splitting disabled no boundary check ever seals.                        *)
C1_BoundaryCheck ==
    [][(CallStep /\ ret'.op = "closeRecord") =>
          /\ ret'.split <=>
                /\ ~doNotSplit
                /\ firstTime # None
                /\ lastTime # None
                /\ SameDaySeconds(firstTime, lastTime) >= boundary
          /\ ret'.split <=> ret'.seal # "none"
          /\ ~ret'.split => UNCHANGED <<buffer, timeSpan, disk, last_cdf_filename>>
          /\ (ret'.split /\ ret'.err = "none") =>
                /\ ret'.reopened
                /\ ret'.seal \in {"published", "discarded"}
                /\ firstTime' = None /\ lastTime' = None
          /\ (~doNotSplit /\ boundary = SixHours /\ firstTime = T0) =>
                /\ lastTime = T2 => ret'.split
                /\ lastTime = T1 => ~ret'.split]_vars

(* A boundary check on a span of exactly six hours has sealed and reopened.*)
C1_Witness ==
    /\ ret.op = "closeRecord"
    /\ ret.split
    /\ ret.span = [kind |-> "timedelta", seconds |-> 21600]
    /\ ret.seal = "published"
    /\ ret.reopened
    /\ ~doNotSplit
    /\ boundary = SixHours

(* C2: within one open file firstTime is the first timestamp the "Epoch"   *)
(* appends carried and lastTime the last one, whichever form the appends   *)
(* took; both are unset while no "Epoch" append was made; an append to     *)
(* another variable leaves both as they were.  (epochLog holds the         *)
(* timestamps of every "Epoch" append that passed the catalog lookup, in   *)
(* call order, those of a call that raised after it included.)             *)
C2_TimeSpan ==
    /\ [](IF epochLog = <<>>
          THEN firstTime = None /\ lastTime = None
          ELSE firstTime = epochLog[1] /\ lastTime = epochLog[Len(epochLog)])
    /\ [][(CallStep /\ ret'.op \in {"addVariableData", "addConstantData"}
                    /\ ret'.arg # "Epoch") => UNCHANGED timeSpan]_vars

(* Three timestamps were appended, in bulk and then one by one: the span   *)
(* runs from the first to the last.                                        *)
C2_Witness ==
    /\ epochLog = <<T0, T1, T2>>
    /\ firstTime = T0
    /\ lastTime = T2
    /\ ret.op = "addVariableData"
    /\ ~ret.all_values
    /\ ret.err = "none"
    /\ "Epoch" \in Keys(data)
    /\ data["Epoch"].val = <<T0, T1, T2>>

(* The twelve characters YYYYMMDDHHMM of the times of StampTimes.          *)
Stamp(t) ==
    CASE t = T0 -> "202401010000"
      [] t = T1 -> "202401010559"
      [] t = T2 -> "202401010600"
      [] t = T3 -> "202411302307"

(* The text of the versions the sessions of SpecNames hold.                *)
VersionText(v) ==
    CASE v = <<"0", ".", "0", ".", "0">> -> "0.0.0"
      [] v = <<"1", ".", "0", ".", "0">> -> "1.0.0"

ExpectedName ==
    IF firstTime = None
    THEN prefix \o "_v" \o VersionText(version) \o ".cdf"
    ELSE prefix \o "_" \o Stamp(firstTime) \o "00" \o "_v" \o VersionText(version) \o ".cdf"

(* C3: the name a seal computes is prefix_YYYYMMDDHHMM00_vVERSION.cdf from *)
(* firstTime when the time span is set, and prefix_vVERSION.cdf when it is *)
(* not; a seal that publishes leaves the file under that name and reports  *)
(* it as the last sealed name.                                             *)
C3_SealedName ==
    [][(CallStep /\ ret'.seal # "none") =>
          /\ ret'.new_filename = ExpectedName
          /\ ret'.seal = "published" =>
                /\ ExpectedName \in files'
                /\ last_cdf_filename' = ExpectedName]_vars

(* A file whose first time has seconds was published under a version that  *)
(* was set, by a session of the second prefix.                             *)
C3_Witness ==
    /\ ret.seal = "published"
    /\ ret.new_filename = "mms1_fpi_20241130230700_v1.0.0.cdf"
    /\ "mms1_fpi_20241130230700_v1.0.0.cdf" \in files
    /\ last_cdf_filename = "mms1_fpi_20241130230700_v1.0.0.cdf"

(* The temporary file a seal was called on is gone after the call (a       *)
(* reopen may have created a new one of the same name).                    *)
TemporaryDeleted ==
    \/ cdf_temp_name \notin tmpFiles'
    \/ ret'.reopened /\ cdf_temp_name' = cdf_temp_name

(* C4: every seal made while nothing is buffered leaves the permanent      *)
(* files as they were, deletes the temporary file, and leaves              *)
(* last_cdf_filename as it was.                                            *)
C4_EmptySeal ==
    [][(CallStep /\ ret'.seal # "none" /\ Keys(data) = {}) =>
          /\ files' = files
          /\ TemporaryDeleted
          /\ last_cdf_filename' = last_cdf_filename]_vars

(* The constants have names of their own, or nothing is buffered: the      *)
(* drain of the seal raises nothing.                                       *)
DrainRaisesNothing == Keys(data) = {} \/ Cardinality(Names(constants)) = Len(constants)

SealLeavesAllInPlace ==
    /\ files' = files
    /\ tmpFiles' = tmpFiles
    /\ cdf_temp_name' = cdf_temp_name
    /\ UNCHANGED <<buffer, timeSpan, last_cdf_filename>>
    /\ ~ret'.reopened

C6_NothingBuffered ==
    ret.seal = "published" =>
        /\ Keys(data) = {}
        /\ Keys(constantData) = {}
        /\ firstTime = None
        /\ lastTime = None
        /\ last_cdf_filename = ret.new_filename

(* C6: after every seal that published a file nothing is buffered for any  *)
(* declared variable, firstTime and lastTime are unset, and                *)
(* last_cdf_filename is the name just published; the data of the constants *)
(* stays as it was, for the files that follow.                             *)
C6_ResetAfterSeal ==
    [][(CallStep /\ ret'.seal = "published") =>
          /\ Keys(data) # {}
          /\ Keys(data') = {}
          /\ constantData' = constantData
          /\ firstTime' = None
          /\ lastTime' = None
          /\ last_cdf_filename' = ret'.new_filename
          /\ ret'.new_filename \in files']_vars

(* A file with a time span and a constant was published: the variables and *)
(* the span are reset, the constant's data is kept.                        *)
C6_Witness ==
    /\ ret.seal = "published"
    /\ ret.new_filename = "probeA_20240101000000_v0.0.0.cdf"
    /\ last_cdf_filename = "probeA_20240101000000_v0.0.0.cdf"
    /\ Keys(data) = {}
    /\ firstTime = None
    /\ lastTime = None
    /\ "Instrument_ID" \in Keys(constantData)

(* A string n.n.n: two dots, none of them first, last or next to the       *)
(* other, and decimal digits everywhere else.                              *)
IsNNN(v) ==
    /\ Cardinality({i \in 1..Len(v) : v[i] = "."}) = 2
    /\ Len(v) >= 5
    /\ v[1] # "."
    /\ v[Len(v)] # "."
    /\ \A i \in 1..(Len(v) - 1) : ~(v[i] = "." /\ v[i + 1] = ".")
    /\ \A i \in 1..Len(v) :
          v[i] \in {".", "0", "1", "2", "3", "4", "5", "6", "7", "8", "9"}

(* The name of the file of the swept session under the version text t.     *)
SweepName(t) ==
    IF "Epoch" \in Names(variables)
    THEN "probeA_20240101055900_v" \o t \o ".cdf"
    ELSE "probeA_v" \o t \o ".cdf"

(* C7: for every string n.n.n (three dot-separated components of decimal   *)
(* digits) setVersionNumber returns normally and stores the string, and    *)
(* the seal that follows names the file and sets Data_version with exactly *)
(* that string, leading zeros included.  (In the sweep a published file is *)
(* the first close of the session, so every call before it passed the      *)
(* string to setVersionNumber.)                                            *)
C7_VersionRoundTrip ==
    /\ (ret.op = "setVersionNumber" /\ IsNNN(versionArg)) =>
          /\ ret.err = "none"
          /\ version = versionArg
    /\ (ret.seal = "published" /\ calls >= 2 /\ IsNNN(versionArg)) =>
          /\ ret.new_filename = SweepName(Str(versionArg))
          /\ ret.new_filename \in files
          /\ last_cdf_filename = ret.new_filename
          /\ ret.content.attrs["Data_version"] = "v" \o Str(versionArg)

(* A version with a leading zero went into the name and the attribute as   *)
(* it was passed.                                                          *)
C7_Witness ==
    /\ versionArg = <<"0", "1", ".", "0", ".", "1">>
    /\ ret.seal = "published"
    /\ ret.new_filename = "probeA_20240101055900_v01.0.1.cdf"
    /\ ret.content.attrs["Data_version"] = "v01.0.1"
    /\ "probeA_20240101055900_v01.0.1.cdf" \in files

(* C8: for every string that is not of the form n.n.n setVersionNumber     *)
(* raises ValueError (FormatError), not the TypeError of a non-string      *)
(* argument, and the stored version stays as it was.                       *)
C8_MalformedVersion ==
    [][(CallStep /\ ret'.op = "setVersionNumber" /\ ~IsNNN(versionArg')) =>
          /\ ret'.err = "ValueError"
          /\ version' = version]_vars

(* C9: addVariableData, in either form, on a name that is not declared as  *)
(* a variable raises ValueError (NotFound) and leaves the buffer and the   *)
(* time span as they were, also when the name is "Epoch"; addConstantData  *)
(* on a name that is not declared as a constant does the same.             *)
C9_UndeclaredName ==
    [][(/\ CallStep
        /\ \/ ret'.op = "addVariableData" /\ ret'.arg \notin Names(variables)
           \/ ret'.op = "addConstantData" /\ ret'.arg \notin Names(constants))
       => /\ ret'.err = "ValueError"
          /\ UNCHANGED <<buffer, timeSpan>>]_vars

(* A bulk append to the undeclared "Epoch" was refused while another       *)
(* variable held data: no time span came of it.                            *)
C9_Witness ==
    /\ ret.op = "addVariableData"
    /\ ret.arg = "Epoch"
    /\ ret.all_values
    /\ ret.err = "ValueError"
    /\ "Epoch" \notin Names(variables)
    /\ "Flux" \in Keys(data)
    /\ firstTime = None
    /\ lastTime = None

(* C10: an incremental append to a name whose data the call before         *)
(* supplied in bulk form is refused with an error and the bulk payload     *)
(* stays as it was.                                                        *)
C10_NoMixing ==
    [][(/\ CallStep
        /\ ret.op = "addVariableData" /\ ret.all_values /\ ret.err = "none"
        /\ ret'.op = "addVariableData" /\ ~ret'.all_values /\ ret'.arg = ret.arg)
       => /\ ret'.err # "none"
          /\ data' = data]_vars

(* C11: a bulk set (all_values=True) on a declared name that has data in   *)
(* the buffer of the open file, set in bulk or appended one by one, raises *)
(* AssertionError (AlreadySet) and the buffered data stays; on a declared  *)
(* name without data it returns normally and the payload is the buffer,    *)
(* so after a seal has reset the buffer the name can be set again.         *)
C11_AlreadySet ==
    [][(/\ CallStep
        /\ ret'.op = "addVariableData" /\ ret'.all_values
        /\ ret'.arg \in Names(variables))
       => /\ ret'.arg \in Keys(data) =>
                /\ ret'.err = "AssertionError"
                /\ data' = data
          /\ ret'.arg \notin Keys(data) =>
                /\ ret'.err = "none"
                /\ data' = Put(data, ret'.arg, ret'.payload)
          /\ (ret.seal = "published" /\ ret.err = "none") => ret'.err = "none"]_vars

(* A second bulk set of the name was refused in the file that followed a   *)
(* seal; the payload of the first one is still the buffer.                 *)
C11_Witness ==
    /\ ret.op = "addVariableData"
    /\ ret.all_values
    /\ ret.err = "AssertionError"
    /\ ret.arg = "Flux"
    /\ data["Flux"].kind = "ndarray"
    /\ ret.payload.kind = "list"
    /\ files # {}

(* C12: an incremental append that returns adds its payload at the end of  *)
(* the buffer of its variable (a buffer of one record when it is the       *)
(* first) and leaves the buffers of the other names as they were; the      *)
(* buffer of "Epoch" is the sequence of the payloads in call order.        *)
C12_IncrementalOrder ==
    /\ []("Epoch" \in Keys(data) => data["Epoch"] = [kind |-> "list", val |-> epochLog])
    /\ [][(/\ CallStep
           /\ ret'.op = "addVariableData" /\ ~ret'.all_values /\ ret'.err = "none")
          => /\ ret'.arg \in Keys(data')
             /\ data'[ret'.arg].val =
                   (IF ret'.arg \in Keys(data) THEN data[ret'.arg].val ELSE <<>>)
                       \o <<ret'.payload>>
             /\ \A n \in Keys(data') \ {ret'.arg} : n \in Keys(data) /\ data'[n] = data[n]
             /\ constantData' = constantData]_vars

(* Two records of "Epoch" in call order beside one record of "Flux".       *)
C12_Witness ==
    /\ ret.op = "addVariableData"
    /\ ~ret.all_values
    /\ Keys(data) = {"Epoch", "Flux"}
    /\ data["Epoch"].val = <<T0, T2>>
    /\ Len(data["Flux"].val) = 1

(* The session of the worked example before its seal.                      *)
ExampleBuffered ==
    /\ prefix = "probeA"
    /\ version = <<"1", ".", "0", ".", "0">>
    /\ Names(constants) = {"Instrument_ID"}
    /\ constantData = Put(EmptyDict, "Instrument_ID", <<[kind |-> "int", val |-> 42]>>)
    /\ Names(variables) = {"Epoch", "Flux"}
    /\ data = Put(Put(EmptyDict, "Epoch", [kind |-> "list", val |-> <<T0>>]),
                  "Flux", [kind |-> "list", val |-> <<[kind |-> "float", val |-> 314]>>])
    /\ cdf.opened
    /\ files = {}

ExamplePublished(logical_file_id) ==
    /\ ret'.err = "none"
    /\ ret'.seal = "published"
    /\ ret'.new_filename = "probeA_20240101000000_v1.0.0.cdf"
    /\ files' = {"probeA_20240101000000_v1.0.0.cdf"}
    /\ ret'.content.attrs["Data_version"] = "v1.0.0"
    /\ ret'.content.attrs["Logical_source"] = "probeA"
    /\ ret'.content.attrs["Generation_date"] = Today
    /\ ret'.content.attrs["Logical_file_id"] = logical_file_id
    /\ ret'.content.zvars["Instrument_ID"].data = [kind |-> "int", val |-> 42]
    /\ ret'.content.zvars["Flux"].data =
           [kind |-> "list", val |-> <<[kind |-> "float", val |-> 314]>>]
    /\ ret'.content.zvars["Epoch"].data = [kind |-> "list", val |-> <<T0>>]

(* C13 as stated: the seal of the worked example publishes                 *)
(* probeA_20240101000000_v1.0.0.cdf with Logical_file_id                   *)
(* "probeA_202401010000".                                                  *)
C13_ExampleAsStated ==
    [][(CallStep /\ ret'.seal # "none" /\ ExampleBuffered)
          => ExamplePublished("probeA_202401010000")]_vars

(* C13: the seal of the worked example (constant Instrument_ID = 42,       *)
(* Epoch = 2024-01-01T00:00:00, Flux = 3.14, prefix "probeA", version      *)
(* "1.0.0") publishes probeA_20240101000000_v1.0.0.cdf with Data_version   *)
(* "v1.0.0", Logical_source "probeA", the constant's 42 and Flux [3.14];   *)
(* its Logical_file_id is the stem of the file name,                       *)
(* "probeA_20240101000000".                                                *)
C13_Example ==
    [][(CallStep /\ ret'.seal # "none" /\ ExampleBuffered)
          => ExamplePublished("probeA_20240101000000")]_vars

(* The file of the worked example was published.                           *)
C13_Witness ==
    /\ ret.seal = "published"
    /\ version = <<"1", ".", "0", ".", "0">>
    /\ files = {"probeA_20240101000000_v1.0.0.cdf"}
    /\ ret.new_filename = "probeA_20240101000000_v1.0.0.cdf"
    /\ ret.content.attrs["Logical_file_id"] = "probeA_20240101000000"
    /\ Keys(ret.content.zvars) = {"Instrument_ID", "Epoch", "Flux"}
    /\ ret.content.zvars["Instrument_ID"].data = [kind |-> "int", val |-> 42]
    /\ ret.content.zvars["Flux"].data =
           [kind |-> "list", val |-> <<[kind |-> "float", val |-> 314]>>]
    /\ ret.content.zvars["Epoch"].data = [kind |-> "list", val |-> <<T0>>]

(* C14: every seal sets Generation_date (today), Data_version ("v" and the *)
(* version in force) and Logical_source (the prefix) in the global         *)
(* attributes, over whatever the caller had set under these names, and     *)
(* the file a seal publishes carries the three with these values.          *)
C14_SealAttributes ==
    [][(CallStep /\ ret'.seal # "none") =>
          /\ global_attrs'["Generation_date"] = Today
          /\ global_attrs'["Data_version"] = "v" \o VersionText(version)
          /\ global_attrs'["Logical_source"] = prefix
          /\ \A k \in Keys(global_attrs) \ {"Generation_date", "Data_version",
                                            "Logical_source", "Logical_file_id"} :
                k \in Keys(global_attrs') /\ global_attrs'[k] = global_attrs[k]
          /\ ret'.seal = "published" =>
                /\ ret'.content.attrs["Generation_date"] = Today
                /\ ret'.content.attrs["Data_version"] = "v" \o VersionText(version)
                /\ ret'.content.attrs["Logical_source"] = prefix
                /\ ret'.content.attrs = global_attrs']_vars

(* A file was published under version 1.0.0 after the caller had set       *)
(* Data_version and an attribute of its own.                               *)
C14_Witness ==
    /\ ret.seal = "published"
    /\ version = <<"1", ".", "0", ".", "0">>
    /\ "Project" \in Keys(ret.content.attrs)
    /\ ret.content.attrs["Data_version"] = "v1.0.0"
    /\ ret.content.attrs["Project"] = "caller"
    /\ ret.content.attrs["Logical_source"] = "probeA"
    /\ ret.content.attrs["Generation_date"] = "20240102"
    /\ calls = 5

Declared == Names(variables) \cup Names(constants)

(* C15: addVariableAttribute never raises, whether the owner is declared   *)
(* or not, and registers the value under the owner; no seal raises for an  *)
(* owner that is not declared, and a published file holds entities of      *)
(* declared names only, each variable with the attributes registered for   *)
(* it; ValueError (NotFound) comes from the data appends only.             *)
C15_UndeclaredOwner ==
    /\ [](ret.err = "ValueError" => ret.op \in {"addVariableData", "addConstantData"})
    /\ [][(CallStep /\ ret'.op = "addVariableAttribute") =>
             /\ ret'.err = "none"
             /\ ret'.arg \in Keys(variable_attrs')
             /\ variable_attrs'[ret'.arg]["UNITS"] = "counts"
             /\ \A o \in Keys(variable_attrs) \ {ret'.arg} :
                   o \in Keys(variable_attrs') /\ variable_attrs'[o] = variable_attrs[o]
             /\ UNCHANGED <<variables, constants, buffer, timeSpan, disk>>]_vars
    /\ [][(CallStep /\ ret'.seal # "none") =>
             /\ (cdf.opened /\ Keys(data) # {} /\ ExpectedName \notin files) =>
                   ret'.seal = "published"
             /\ ret'.seal = "published" =>
                   /\ Keys(ret'.content.zvars) \subseteq Declared
                   /\ \A o \in Keys(variable_attrs) \ Declared :
                         o \notin Keys(ret'.content.zvars)
                   /\ \A n \in Names(variables) :
                         ret'.content.zvars[n].attrs =
                            (IF n \in Keys(variable_attrs) THEN variable_attrs[n]
                             ELSE EmptyDict)]_vars

(* A file was published while the registry held an attribute of the        *)
(* undeclared "Ghost" and one of "Flux": only the latter is in the file.   *)
C15_Witness ==
    /\ ret.seal = "published"
    /\ ret.err = "none"
    /\ Keys(variable_attrs) = {"Flux", "Ghost"}
    /\ "Ghost" \notin Declared
    /\ Keys(ret.content.zvars) = {"Flux"}
    /\ ret.content.zvars["Flux"].attrs["UNITS"] = "counts"

HasDuplicateVariable == Cardinality(Names(variables)) < Len(variables)

(* C16: addVariable with a name that is in the variable catalog returns    *)
(* normally and adds a second entry of that name; the seal of a session    *)
(* with such a duplicate (its handle open, its path free, nothing else     *)
(* failing in the drain) raises nothing for it and publishes the file,     *)
(* the buffered data in it.                                                *)
C16_DuplicateVariable ==
    /\ [][(CallStep /\ ret'.op = "addVariable") =>
             /\ ret'.err = "none"
             /\ Len(variables') = Len(variables) + 1
             /\ SubSeq(variables', 1, Len(variables)) = variables
             /\ variables'[Len(variables')].name = ret'.arg]_vars
    /\ [][(/\ CallStep /\ ret'.seal # "none"
           /\ HasDuplicateVariable
           /\ Keys(data) # {} /\ cdf.opened /\ DrainRaisesNothing
           /\ ExpectedName \notin files)
          => /\ ret'.err = "none"
             /\ ret'.seal = "published"
             /\ ExpectedName \in files'
             /\ \A n \in Keys(data) : ret'.content.zvars[n].data = data[n]]_vars

(* "Flux" was declared twice and its record is in the published file.      *)
C16_Witness ==
    /\ ret.seal = "published"
    /\ ret.err = "none"
    /\ Len(variables) = 2
    /\ Names(variables) = {"Flux"}
    /\ ret.content.zvars["Flux"].data =
           [kind |-> "list", val |-> <<[kind |-> "float", val |-> 314]>>]
    /\ ret.new_filename \in files

(* C17: a session that ends while it holds buffered data is sealed: the    *)
(* data is published as a permanent file and the temporary file is gone,   *)
(* without a call of close.                                                *)
C17_AutoSeal ==
    [][(CallStep /\ ret'.op = "__del__" /\ Keys(data) # {} /\ cdf.opened) =>
          /\ files' # files
          /\ cdf_temp_name \notin tmpFiles'
          /\ ~cdf'.opened]_vars

(* The table of the fill values, by element type.                          *)
FillTable(t) ==
    CASE t \in {"CDF_DOUBLE", "CDF_FLOAT"} ->
              [kind |-> "float", mantissa |-> 1, exponent |-> 31]
      [] t = "CDF_UINT1" -> [kind |-> "int", val |-> 255]
      [] t = "CDF_UINT2" -> [kind |-> "int", val |-> 65535]
      [] t = "CDF_INT4" -> [kind |-> "int", val |-> 1]
      [] t = "CDF_UINT4" -> [kind |-> "int", val |-> -1]

InFillTable(t) ==
    t \in {"CDF_DOUBLE", "CDF_FLOAT", "CDF_UINT1", "CDF_UINT2", "CDF_INT4", "CDF_UINT4"}

(* The type the catalog holds for a name (the first entry of the name).    *)
CatalogType(name) ==
    variables[CHOOSE i \in 1..Len(variables) : variables[i].name = name].dataType

FillRegistered(owner, value) ==
    /\ owner \in Keys(variable_attrs')
    /\ "FILLVAL" \in Keys(variable_attrs'[owner])
    /\ variable_attrs'[owner]["FILLVAL"] = value

FillAsBefore(owner) ==
    IF owner \in Keys(variable_attrs) /\ "FILLVAL" \in Keys(variable_attrs[owner])
    THEN FillRegistered(owner, variable_attrs[owner]["FILLVAL"])
    ELSE "FILLVAL" \notin Keys(variable_attrs'[owner])

(* C18 as stated: with fill-value generation requested for a declared      *)
(* variable, FILLVAL follows the element type the variable was declared    *)
(* with, and the process aborts when that type is outside the table.       *)
C18_FillByDeclaredType ==
    [][(/\ CallStep /\ ret'.op = "addPlotVariableAttributes"
        /\ ret'.payload.addFill /\ ret'.arg \in Names(variables))
       => IF InFillTable(CatalogType(ret'.arg))
          THEN ret'.err = "none" /\ FillRegistered(ret'.arg, FillTable(CatalogType(ret'.arg)))
          ELSE ret'.err = "SIGABRT" /\ FillAsBefore(ret'.arg)]_vars

(* C18: with fill-value generation requested, FILLVAL follows the dataType *)
(* argument of the call (the catalog is not consulted): 1.0e31 for         *)
(* CDF_DOUBLE and CDF_FLOAT, 255 for CDF_UINT1, 65535 for CDF_UINT2, 1 for *)
(* CDF_INT4, -1 for CDF_UINT4; for any other dataType, the default None    *)
(* included, the process aborts and the call registers no FILLVAL; without *)
(* the request the call registers none and returns.                        *)
C18_FillByArgument ==
    [][(CallStep /\ ret'.op = "addPlotVariableAttributes") =>
          IF ~ret'.payload.addFill
          THEN ret'.err = "none" /\ FillAsBefore(ret'.arg)
          ELSE IF InFillTable(ret'.payload.dataType)
          THEN /\ ret'.err = "none"
               /\ FillRegistered(ret'.arg, FillTable(ret'.payload.dataType))
               /\ variable_attrs'[ret'.arg]["VAR_TYPE"] = "data"
               /\ variable_attrs'[ret'.arg]["DEPEND_0"] = "Epoch"
          ELSE /\ ret'.err = "SIGABRT"
               /\ FillAsBefore(ret'.arg)]_vars

(* The builder registered -1 for CDF_UINT4 on "Flux", which the catalog    *)
(* holds as CDF_DOUBLE.                                                    *)
C18_Witness ==
    /\ ret.op = "addPlotVariableAttributes"
    /\ ret.err = "none"
    /\ ret.arg = "Flux"
    /\ ret.payload.dataType = "CDF_UINT4"
    /\ ret.payload.addFill
    /\ "Flux" \in Names(variables)
    /\ variable_attrs["Flux"]["FILLVAL"] = [kind |-> "int", val |-> -1]

(* C19: a seal with data buffered, its handle open and its path free,      *)
(* raises nothing whatever entity of the catalog, constant or variable,    *)
(* fails to materialize in the drain, and publishes the file, which holds  *)
(* declared names only.                                                    *)
C19_LocalRecovery ==
    [][(/\ CallStep /\ ret'.seal # "none"
        /\ Keys(data) # {} /\ cdf.opened /\ ExpectedName \notin files)
       => /\ ret'.err = "none"
          /\ ret'.seal = "published"
          /\ ExpectedName \in files'
          /\ Keys(ret'.content.zvars) \subseteq Declared]_vars

(* C20: a session whose handle is open has exactly one temporary file, the *)
(* one of its handle, and there is never a second one; makeNewFile opens   *)
(* its new temporary file only after close() has moved the one in use to   *)
(* the permanent name or deleted it.                                       *)
C20_OneTemporary ==
    /\ [](/\ cdf.opened => tmpFiles = {cdf_temp_name}
          /\ Cardinality(tmpFiles) <= 1
          /\ tmpFiles \subseteq {cdf_temp_name})
    /\ [][(CallStep /\ ret'.reopened) =>
             /\ ret'.op \in {"makeNewFile", "closeRecord"}
             /\ ret'.seal \in {"published", "discarded"}
             /\ ret'.seal = "published" => ret'.new_filename \in files'
             /\ ret'.seal = "discarded" => files' = files
             /\ cdf.opened /\ tmpFiles = {cdf_temp_name}
             /\ cdf'.opened /\ tmpFiles' = {cdf_temp_name'}]_vars

(* makeNewFile published a file and opened a temporary file of another     *)
(* name: it is the only one.                                               *)
C20_Witness ==
    /\ ret.op = "makeNewFile"
    /\ ret.reopened
    /\ ret.seal = "published"
    /\ cdf.opened
    /\ cdf_temp_name # FirstTmpName
    /\ tmpFiles = {cdf_temp_name}
    /\ ret.new_filename \in files

(* C21: the first addConstantData of a constant stores its payload and a   *)
(* later one leaves the first in its place; a published file holds every   *)
(* declared constant with record variance off and no compression, and its  *)
(* value is the payload of the first call.                                 *)
C21_ConstantFirstPayload ==
    /\ [][(CallStep /\ ret'.op = "addConstantData" /\ ret'.err = "none") =>
             /\ ret'.arg \in Keys(constantData')
             /\ IF ret'.arg \in Keys(constantData)
                THEN constantData'[ret'.arg][1] = constantData[ret'.arg][1]
                ELSE constantData'[ret'.arg] = <<ret'.payload>>]_vars
    /\ [][(CallStep /\ ret'.seal = "published") =>
             \A name \in Names(constants) :
                 IF name \notin Keys(ret'.content.zvars) THEN FALSE
                 ELSE LET z == ret'.content.zvars[name]
                      IN  /\ z.recVary = FALSE
                          /\ z.compress = "NO_COMPRESSION"
                          /\ IF name \in Keys(constantData)
                             THEN z.data = constantData[name][1]
                             ELSE z.data = None]_vars

(* A file is published whose constant received two different payloads: it  *)
(* holds the first.                                                        *)
C21_Witness ==
    /\ ret.seal = "published"
    /\ "Instrument_ID" \in Keys(constantData)
    /\ Len(constantData["Instrument_ID"]) >= 2
    /\ constantData["Instrument_ID"][1] # constantData["Instrument_ID"][2]
    /\ "Instrument_ID" \in Keys(ret.content.zvars)
    /\ ret.content.zvars["Instrument_ID"].data = constantData["Instrument_ID"][1]

(* C22: a boundary check that splits publishes a file that holds every     *)
(* "Epoch" value appended so far, the last one (which made the span reach  *)
(* the boundary) included, under the name made from the first time of the  *)
(* file, and leaves the time span and the buffer empty; the first "Epoch"  *)
(* value appended after it is the first time of the next file.             *)
C22_SplitRollover ==
    /\ [][(CallStep /\ ret'.op = "closeRecord" /\ ret'.split /\ ret'.err = "none") =>
             /\ ret'.seal = "published"
             /\ epochLog # <<>>
             /\ firstTime = epochLog[1]
             /\ lastTime = epochLog[Len(epochLog)]
             /\ TimeDelta(lastTime, firstTime) >= boundary
             /\ Keys(ret'.content.zvars) = {"Epoch"}
             /\ ret'.content.zvars["Epoch"].data = [kind |-> "list", val |-> epochLog]
             /\ ret'.new_filename = ExpectedName
             /\ ret'.new_filename \in files'
             /\ firstTime' = None
             /\ lastTime' = None
             /\ data' = EmptyDict]_vars
    /\ [][(/\ CallStep /\ ret'.op = "addVariableData" /\ ret'.arg = "Epoch"
           /\ ret'.err = "none" /\ files # {}) =>
             IF Keys(data) = {}
             THEN /\ firstTime' = ret'.payload
                  /\ lastTime' = ret'.payload
                  /\ data' = Put(EmptyDict, "Epoch",
                                 [kind |-> "list", val |-> <<ret'.payload>>])
             ELSE firstTime' = firstTime /\ firstTime = data["Epoch"].val[1]]_vars

(* After a split of the file that began at T0, a later time was appended:  *)
(* it is the first time of the next file.                                  *)
C22_Witness ==
    /\ ret.op = "addVariableData"
    /\ ret.arg = "Epoch"
    /\ ret.err = "none"
    /\ ~doNotSplit
    /\ last_cdf_filename = "probeA_20240101000000_v0.0.0.cdf"
    /\ last_cdf_filename \in files
    /\ firstTime = T2
    /\ lastTime = T2
    /\ data = Put(EmptyDict, "Epoch", [kind |-> "list", val |-> <<T2>>])

(* C23: with splitting enabled, a boundary check made while the time span  *)
(* is unset raises TypeError; it seals nothing and leaves the catalog, the *)
(* attributes, the buffer, the time span, the handle and the files as they *)
(* were.                                                                   *)
C23_CheckOnUnsetSpan ==
    [][(CallStep /\ ret'.op = "closeRecord" /\ ~doNotSplit /\ firstTime = None) =>
          /\ lastTime = None
          /\ ret'.err = "TypeError"
          /\ ret'.seal = "none"
          /\ ~ret'.split
          /\ ~ret'.reopened
          /\ UNCHANGED <<schema, buffer, timeSpan, disk, cdf_temp_name, global_attrs,
                         last_cdf_filename>>]_vars

(* The second of two boundary checks in a row, the first of which split    *)
(* the file: it raised.                                                    *)
C23_Witness ==
    /\ ret.op = "closeRecord"
    /\ ret.err = "TypeError"
    /\ ~doNotSplit
    /\ firstTime = None
    /\ last_cdf_filename = "probeA_20240101000000_v0.0.0.cdf"
    /\ last_cdf_filename \in files
    /\ cdf.opened

(* C24: an append that raises ValueError (the name is not declared) or     *)
(* AssertionError (a bulk set of a name that has data) leaves the buffer   *)
(* and the time span as they were, "Epoch" included.                       *)
C24_FailedAppend ==
    [][(/\ CallStep
        /\ ret'.op = "addVariableData"
        /\ ret'.err \in {"ValueError", "AssertionError"})
       => UNCHANGED <<buffer, timeSpan>>]_vars

(* C25: between calls the first time is set exactly when the buffer holds  *)
(* data of "Epoch", whichever call put it there, and a published file that *)
(* holds data of "Epoch" has a name with the timestamp.                    *)
C25_SpanIffEpochData ==
    /\ [](firstTime # None <=> "Epoch" \in Keys(data))
    /\ [][(CallStep /\ ret'.seal = "published" /\ "Epoch" \in Keys(data)) =>
             /\ firstTime # None
             /\ ret'.new_filename # prefix \o "_v" \o VersionText(version) \o ".cdf"]_vars

(* C26: a seal made while the constants have data and no variable has      *)
(* writes nothing through the handle, publishes nothing, leaves the        *)
(* permanent files and last_cdf_filename as they were; a seal that         *)
(* publishes has data of a variable in its buffer.                         *)
C26_ConstantsAlone ==
    /\ [][(/\ CallStep /\ ret'.seal # "none"
           /\ Keys(data) = {} /\ Keys(constantData) # {})
          => /\ ret'.seal # "published"
             /\ ret'.content = None
             /\ files' = files
             /\ last_cdf_filename' = last_cdf_filename
             /\ constantData' = constantData]_vars
    /\ [][(CallStep /\ ret'.seal = "published") => Keys(data) # {}]_vars

(* A session whose constant has data and whose variables have none was     *)
(* closed: no file, no last name.                                          *)
C26_Witness ==
    /\ ret.op = "close"
    /\ ret.seal = "discarded"
    /\ ret.err = "none"
    /\ "Instrument_ID" \in Keys(constantData)
    /\ Names(variables) # {}
    /\ Keys(data) = {}
    /\ files = {}
    /\ tmpFiles = {}
    /\ last_cdf_filename = NoneStr

(* C27: the Logical_file_id of a published file is made from the first     *)
(* time of that file, and a file published with the time span unset has    *)
(* no Logical_file_id.                                                     *)
C27_OwnLogicalFileId ==
    [][(CallStep /\ ret'.seal = "published") =>
          IF firstTime = None
          THEN "Logical_file_id" \notin Keys(ret'.content.attrs)
          ELSE IF "Logical_file_id" \notin Keys(ret'.content.attrs) THEN FALSE
          ELSE ret'.content.attrs["Logical_file_id"] =
                   prefix \o "_" \o Stamp(firstTime) \o "00"]_vars

(* C28: close() leaves the handle closed and makeNewFile leaves it open;   *)
(* while the handle is closed an append to a declared name still adds its  *)
(* payload to the buffer, and every close() and makeNewFile(), with data   *)
(* in the buffer or without, raises CDFError, publishes nothing and leaves *)
(* the handle closed.                                                      *)
C28_ClosedSession ==
    /\ [][(CallStep /\ ret'.op = "close" /\ ret'.err = "none") =>
             cdf.opened /\ ~cdf'.opened /\ tmpFiles' = {}]_vars
    /\ [][(CallStep /\ ret'.op = "makeNewFile" /\ ret'.err = "none") =>
             cdf.opened /\ cdf'.opened /\ ret'.reopened]_vars
    /\ [][(CallStep /\ ~cdf.opened) =>
             /\ ~cdf'.opened
             /\ files' = files
             /\ last_cdf_filename' = last_cdf_filename
             /\ ret'.seal # "none" =>
                   /\ ret'.err = "CDFError"
                   /\ ret'.seal = "failed"
                   /\ ~ret'.reopened
                   /\ data' = data
             /\ (ret'.op = "addVariableData" /\ ret'.arg \in Names(variables)) =>
                   /\ ret'.err = "none"
                   /\ ret'.arg \in Keys(data')
                   /\ data'[ret'.arg].val[Len(data'[ret'.arg].val)] = ret'.payload]_vars

(* A file was published by close(), a record was appended after it, and    *)
(* the second close() raised: the record is still in the buffer.           *)
C28_Witness ==
    /\ ret.op = "close"
    /\ ret.err = "CDFError"
    /\ ~cdf.opened
    /\ Keys(data) # {}
    /\ last_cdf_filename # NoneStr
    /\ files = {last_cdf_filename}
    /\ tmpFiles = {}

====
